---------------------------- MODULE Spec2Model ----------------------------
(***************************************************************************)
(* Model of the Telegram speed-test bot of src/main.py.                    *)
(*                                                                         *)
(* Text is a sequence of one-character strings, so that escaping and       *)
(* pattern matching are computed character by character as the code does.  *)
(***************************************************************************)
EXTENDS Naturals, Integers, Sequences, FiniteSets, TLC

VARIABLES
    pc,        \* position of the worker: "idle", a handler position, "returned"
    update,    \* the telegram Update being handled
    sent,      \* send / edit calls placed on the chat transport for this update
    logged,    \* logger.error records written for this update
    calls,     \* blocking external calls started for this update, in order
    error,     \* the exception being propagated (context.error), or NoError
    local,     \* the handler's local variables
    arg,       \* input of the function under test (function specifications)
    ret        \* its result

vars == <<pc, update, sent, logged, calls, error, local, arg, ret>>
funVars == <<arg, ret>>

(***************************************************************************)
(* Bounds.                                                                 *)
(***************************************************************************)
MaxTextLen == 2     \* length of names, hosts and stderr texts in the bot
MaxOutSegs == 2     \* chunks of ping output in the bot
MaxEscLen == 3      \* length of the sanitizer's input
MaxSegs == 8        \* chunks of ping output given to the statistics parser

(***************************************************************************)
(* Text helpers.                                                           *)
(***************************************************************************)
RECURSIVE Flatten(_)
Flatten(ss) == IF ss = << >> THEN << >> ELSE Head(ss) \o Flatten(Tail(ss))

SeqsUpTo(S, n) == UNION {[1..k -> S] : k \in 0..n}

(***************************************************************************)
(* escape_markdown_v2, src/main.py:20-23.                                  *)
(***************************************************************************)
\* The module's lexer accepts no grave accent inside a string: BQ stands for
\* that one character.
BQ == "grave"

escape_chars ==
    {"_", "*", "[", "]", "(", ")", "~", BQ, ">", "#", "+", "-", "=", "|",
     "{", "}", ".", "!"}

EscapeOne(char) == IF char \in escape_chars THEN <<"\\", char>> ELSE <<char>>

RECURSIVE escape_markdown_v2(_)
escape_markdown_v2(text) ==
    IF text = << >> THEN << >>
    ELSE EscapeOne(Head(text)) \o escape_markdown_v2(Tail(text))

(***************************************************************************)
(* re.findall over stdout, src/main.py:152. The pattern is: one or more    *)
(* digits, an optional dot, any number of digits (the group), then " ms".  *)
(* A match starting at i is a maximal run of digits, an optional dot, a     *)
(* maximal run of digits, then the literal " ms"; no shorter choice of the  *)
(* greedy parts can match, since the literal starts with a space.           *)
(***************************************************************************)
Digit == {"0", "1", "2", "3", "4", "5", "6", "7", "8", "9"}

RECURSIVE SkipDigits(_, _)
SkipDigits(s, i) ==
    IF i <= Len(s) /\ s[i] \in Digit THEN SkipDigits(s, i + 1) ELSE i

\* The index just past the group of a match starting at i, or 0.
GroupEnd(s, i) ==
    LET j == SkipDigits(s, i)
        k == IF j <= Len(s) /\ s[j] = "." THEN j + 1 ELSE j
        l == SkipDigits(s, k)
    IN  IF /\ j > i
           /\ l + 2 <= Len(s)
           /\ s[l] = " " /\ s[l + 1] = "m" /\ s[l + 2] = "s"
        THEN l ELSE 0

RECURSIVE FindFrom(_, _)
FindFrom(s, i) ==
    IF i > Len(s) THEN << >>
    ELSE LET l == GroupEnd(s, i)
         IN  IF l = 0 THEN FindFrom(s, i + 1)
             ELSE <<SubSeq(s, i, l - 1)>> \o FindFrom(s, l + 3)

findall(stdout) == FindFrom(stdout, 1)

(***************************************************************************)
(* Python subscription stats[i], negative i counting from the end, and the *)
(* selection of min / avg / max, src/main.py:154-156.                      *)
(***************************************************************************)
NA == <<"N", "/", "A">>

subscript(seq, i) == IF i < 0 THEN seq[Len(seq) + i + 1] ELSE seq[i + 1]

\* Mutant of ping_stats: min is the first match, not the third from the end.
ping_stats_first(stats) ==
    [min_ping |-> IF Len(stats) >= 3 THEN subscript(stats, 0) ELSE NA,
     avg_ping |-> IF Len(stats) >= 2 THEN subscript(stats, Len(stats) - 2) ELSE NA,
     max_ping |-> IF Len(stats) >= 1 THEN subscript(stats, Len(stats) - 1) ELSE NA]

ping_stats(stats) ==
    [min_ping |-> IF Len(stats) >= 3 THEN subscript(stats, -3) ELSE NA,
     avg_ping |-> IF Len(stats) >= 2 THEN subscript(stats, -2) ELSE NA,
     max_ping |-> IF Len(stats) >= 1 THEN subscript(stats, -1) ELSE NA]

(***************************************************************************)
(* Values of the bot's variables while no update is being handled.          *)
(***************************************************************************)
NoUpdate ==
    [command |-> "none", args |-> << >>, full_name |-> << >>,
     has_message |-> FALSE, has_effective_message |-> FALSE]

NoError == [at |-> "none", escaped |-> FALSE]

NoResults == [sponsor |-> << >>, country |-> << >>, isp |-> << >>, ip |-> << >>]

NoLocal ==
    [msg |-> FALSE, host |-> << >>, stdout |-> << >>, stderr |-> << >>,
     parsed |-> FALSE, stats |-> << >>, results |-> NoResults]

BotIdle ==
    /\ pc = "idle"
    /\ update = NoUpdate
    /\ sent = << >>
    /\ logged = << >>
    /\ calls = << >>
    /\ error = NoError
    /\ local = NoLocal

(***************************************************************************)
(* Function specification: escape_markdown_v2 applied to every text of at   *)
(* most MaxEscLen characters over the escape set, a letter and a backslash. *)
(***************************************************************************)
EscAlphabet == escape_chars \cup {"a", "\\"}

InitEscape ==
    /\ pc = "fn_call"
    /\ arg \in SeqsUpTo(EscAlphabet, MaxEscLen)
    /\ ret = << >>
    /\ update = NoUpdate /\ sent = << >> /\ logged = << >> /\ calls = << >>
    /\ error = NoError /\ local = NoLocal

CallEscape ==
    /\ pc = "fn_call"
    /\ ret' = escape_markdown_v2(arg)
    /\ pc' = "fn_return"
    /\ UNCHANGED <<update, sent, logged, calls, error, local, arg>>

SpecEscape == InitEscape /\ [][CallEscape]_vars

(***************************************************************************)
(* Function specification: the statistics extraction of ping_command        *)
(* (src/main.py:152-156) applied to every output made of at most MaxSegs    *)
(* chunks, each a digit, a dot or the unit " ms".                           *)
(***************************************************************************)
Segments == {<<"1">>, <<"2">>, <<".">>, <<" ", "m", "s">>}

Outputs(n) == {Flatten(ss) : ss \in SeqsUpTo(Segments, n)}

NoStats == [stats |-> << >>, min_ping |-> NA, avg_ping |-> NA, max_ping |-> NA]

InitStats ==
    /\ pc = "fn_call"
    /\ arg \in Outputs(MaxSegs)
    /\ ret = NoStats
    /\ update = NoUpdate /\ sent = << >> /\ logged = << >> /\ calls = << >>
    /\ error = NoError /\ local = NoLocal

CallStats ==
    /\ pc = "fn_call"
    /\ LET stats == findall(arg)
           r == ping_stats(stats)
       IN  ret' = [stats |-> stats, min_ping |-> r.min_ping,
                   avg_ping |-> r.avg_ping, max_ping |-> r.max_ping]
    /\ pc' = "fn_return"
    /\ UNCHANGED <<update, sent, logged, calls, error, local, arg>>

SpecStats == InitStats /\ [][CallStats]_vars

(***************************************************************************)
(* The bot. One worker handles one update at a time; an action is the code  *)
(* of a handler between two suspension points (an awaited send or edit, a   *)
(* blocking library or subprocess call).                                    *)
(***************************************************************************)
Commands == {"start", "help", "speedtest", "speedtest_advanced", "ping"}

Texts == SeqsUpTo({"a", "."}, MaxTextLen) \ {<< >>}

\* The updates a command can arrive in. update.message is None for an
\* edited message; error_handler also allows for no effective_message.
Updates ==
    {u \in [command : Commands, args : {<< >>} \cup {<<h>> : h \in Texts},
            full_name : Texts,
            has_message : BOOLEAN, has_effective_message : BOOLEAN] :
        /\ u.has_message => u.has_effective_message
        /\ u.command # "ping" => u.args = << >>
        /\ u.command # "start" => u.full_name = <<"a">>}

Results ==
    [sponsor : Texts, country : Texts, isp : Texts, ip : {<<"1", ".", "2">>}]

\* A send or edit call: the method, the object it is called on, the message
\* template, the parse mode, the texts inserted into the template (each with
\* the name of the value it comes from), and whether the call returned.
Msg(api, on, text, parse_mode, fields) ==
    [api |-> api, on |-> on, text |-> text, parse_mode |-> parse_mode,
     fields |-> fields, ok |-> TRUE]

Field(src, ins) == [src |-> src, ins |-> ins]

\* Calling a method of an object that is None raises before any call is placed.
Deliver(present, m, ok) ==
    IF present THEN Append(sent, [m EXCEPT !.ok = ok]) ELSE sent

Raise(at) == [at |-> at, escaped |-> FALSE]
Escaped(at) == [at |-> at, escaped |-> TRUE]

LogRecord(src, u, e) == [src |-> src, update |-> u, error |-> e]

Init ==
    /\ BotIdle
    /\ arg = << >>
    /\ ret = << >>

\* application.run_polling() with the five CommandHandlers, src/main.py:180-195.
Receive ==
    /\ pc = "idle"
    /\ \E u \in Updates :
        /\ update' = u
        /\ pc' = u.command
    /\ UNCHANGED <<sent, logged, calls, error, local, funVars>>

\* start, src/main.py:25-42.
StartReply ==
    /\ pc = "start"
    /\ \E ok \in BOOLEAN :
        LET escaped_name == escape_markdown_v2(update.full_name)
            message == Msg("reply_markdown_v2", "update.message", "welcome",
                           "MarkdownV2", <<Field("full_name", escaped_name)>>)
        IN  /\ sent' = Deliver(update.has_message, message, ok)
            /\ IF update.has_message /\ ok
               THEN pc' = "returned" /\ error' = error
               ELSE pc' = "start_except" /\ error' = Raise("reply")
    /\ UNCHANGED <<update, logged, calls, local, funVars>>

\* Mutant of StartExcept: the except block does not log.
StartExceptNoLog ==
    /\ pc = "start_except"
    /\ logged' = logged
    /\ \E ok \in BOOLEAN :
        LET message == Msg("reply_text", "update.message", "error_occurred",
                           "none", << >>)
        IN  /\ sent' = Deliver(update.has_message, message, ok)
            /\ IF update.has_message /\ ok
               THEN pc' = "returned" /\ error' = error
               ELSE pc' = "error_handler" /\ error' = Escaped("except_reply")
    /\ UNCHANGED <<update, calls, local, funVars>>

\* start, src/main.py:43-45.
StartExcept ==
    /\ pc = "start_except"
    /\ logged' = Append(logged, LogRecord("start", NoUpdate, error.at))
    /\ \E ok \in BOOLEAN :
        LET message == Msg("reply_text", "update.message", "error_occurred",
                           "none", << >>)
        IN  /\ sent' = Deliver(update.has_message, message, ok)
            /\ IF update.has_message /\ ok
               THEN pc' = "returned" /\ error' = error
               ELSE pc' = "error_handler" /\ error' = Escaped("except_reply")
    /\ UNCHANGED <<update, calls, local, funVars>>

\* help_command, src/main.py:47-65.
HelpReply ==
    /\ pc = "help"
    /\ \E ok \in BOOLEAN :
        LET message == Msg("reply_markdown_v2", "update.message", "help",
                           "MarkdownV2", << >>)
        IN  /\ sent' = Deliver(update.has_message, message, ok)
            /\ IF update.has_message /\ ok
               THEN pc' = "returned" /\ error' = error
               ELSE pc' = "help_except" /\ error' = Raise("reply")
    /\ UNCHANGED <<update, logged, calls, local, funVars>>

\* help_command, src/main.py:66-68.
HelpExcept ==
    /\ pc = "help_except"
    /\ logged' = Append(logged, LogRecord("help", NoUpdate, error.at))
    /\ \E ok \in BOOLEAN :
        LET message == Msg("reply_text", "update.message", "error_occurred",
                           "none", << >>)
        IN  /\ sent' = Deliver(update.has_message, message, ok)
            /\ IF update.has_message /\ ok
               THEN pc' = "returned" /\ error' = error
               ELSE pc' = "error_handler" /\ error' = Escaped("except_reply")
    /\ UNCHANGED <<update, calls, local, funVars>>

\* Mutant of speedtest_steps: upload is measured before download.
speedtest_steps_swapped ==
    <<"Speedtest", "get_best_server", "upload", "download", "results.ping">>

\* The measurement operations of speedtest_command in program order,
\* src/main.py:75-80: the constructor, three blocking calls, one read.
speedtest_steps ==
    <<"Speedtest", "get_best_server", "download", "upload", "results.ping">>

\* speedtest_command, src/main.py:70-73.
SpeedtestPlaceholder ==
    /\ pc = "speedtest"
    /\ \E ok \in BOOLEAN :
        LET message == Msg("reply_text", "update.message", "running_speedtest",
                           "none", << >>)
        IN  /\ sent' = Deliver(update.has_message, message, ok)
            /\ IF update.has_message /\ ok
               THEN /\ pc' = "speedtest_call"
                    /\ local' = [local EXCEPT !.msg = TRUE]
                    /\ error' = error
               ELSE /\ pc' = "speedtest_except"
                    /\ local' = local
                    /\ error' = Raise("placeholder")
    /\ UNCHANGED <<update, logged, calls, funVars>>

\* speedtest_command, src/main.py:75-79: the next blocking call is started.
SpeedtestCall ==
    /\ pc = "speedtest_call"
    /\ calls' = Append(calls, speedtest_steps[Len(calls) + 1])
    /\ pc' = "speedtest_wait"
    /\ UNCHANGED <<update, sent, logged, error, local, funVars>>

\* Mutant of SpeedtestReturn: the measurement runs outside the try block.
SpeedtestReturnUncaught ==
    /\ pc = "speedtest_wait"
    /\ \/ /\ pc' = IF Len(calls) < 4 THEN "speedtest_call" ELSE "speedtest_edit"
          /\ error' = error
       \/ /\ pc' = "error_handler"
          /\ error' = Escaped("measure")
    /\ UNCHANGED <<update, sent, logged, calls, local, funVars>>

\* speedtest_command, src/main.py:75-79: the blocking call returns or raises.
\* Nothing in the code bounds the time it takes.
SpeedtestReturn ==
    /\ pc = "speedtest_wait"
    /\ \/ /\ pc' = IF Len(calls) < 4 THEN "speedtest_call" ELSE "speedtest_edit"
          /\ error' = error
       \/ /\ pc' = "speedtest_except"
          /\ error' = Raise("measure")
    /\ UNCHANGED <<update, sent, logged, calls, local, funVars>>

\* speedtest_command, src/main.py:80-89.
SpeedtestEdit ==
    /\ pc = "speedtest_edit"
    /\ calls' = Append(calls, speedtest_steps[Len(calls) + 1])
    /\ \/ /\ pc' = "speedtest_except"
          /\ error' = Raise("format")
          /\ sent' = sent
       \/ \E ok \in BOOLEAN :
            LET result == Msg("edit_text", "msg", "speedtest_results",
                              "MarkdownV2", << >>)
            IN  /\ sent' = Deliver(local.msg, result, ok)
                /\ IF ok
                   THEN pc' = "returned" /\ error' = error
                   ELSE pc' = "speedtest_except" /\ error' = Raise("edit")
    /\ UNCHANGED <<update, logged, local, funVars>>

\* speedtest_command, src/main.py:90-92.
SpeedtestExcept ==
    /\ pc = "speedtest_except"
    /\ logged' = Append(logged, LogRecord("speedtest", NoUpdate, error.at))
    /\ \E ok \in BOOLEAN :
        LET message == Msg("reply_text", "update.message", "speedtest_failed",
                           "none", << >>)
        IN  /\ sent' = Deliver(update.has_message, message, ok)
            /\ IF update.has_message /\ ok
               THEN pc' = "returned" /\ error' = error
               ELSE pc' = "error_handler" /\ error' = Escaped("except_reply")
    /\ UNCHANGED <<update, calls, local, funVars>>

\* The measurement operations of speedtest_advanced in program order,
\* src/main.py:99-104.
advanced_steps ==
    <<"Speedtest", "get_best_server", "download", "upload", "results.ping">>

\* speedtest_advanced, src/main.py:94-97.
AdvancedPlaceholder ==
    /\ pc = "speedtest_advanced"
    /\ \E ok \in BOOLEAN :
        LET message == Msg("reply_text", "update.message", "running_advanced",
                           "none", << >>)
        IN  /\ sent' = Deliver(update.has_message, message, ok)
            /\ IF update.has_message /\ ok
               THEN /\ pc' = "advanced_call"
                    /\ local' = [local EXCEPT !.msg = TRUE]
                    /\ error' = error
               ELSE /\ pc' = "advanced_except"
                    /\ local' = local
                    /\ error' = Raise("placeholder")
    /\ UNCHANGED <<update, logged, calls, funVars>>

\* speedtest_advanced, src/main.py:99-103: the next blocking call is started.
AdvancedCall ==
    /\ pc = "advanced_call"
    /\ calls' = Append(calls, advanced_steps[Len(calls) + 1])
    /\ pc' = "advanced_wait"
    /\ UNCHANGED <<update, sent, logged, error, local, funVars>>

\* speedtest_advanced, src/main.py:99-103: the blocking call returns or raises.
AdvancedReturn ==
    /\ pc = "advanced_wait"
    /\ \/ /\ pc' = IF Len(calls) < 4 THEN "advanced_call" ELSE "advanced_edit"
          /\ error' = error
       \/ /\ pc' = "advanced_except"
          /\ error' = Raise("measure")
    /\ UNCHANGED <<update, sent, logged, calls, local, funVars>>

\* speedtest_advanced, src/main.py:104-120.
AdvancedEdit ==
    /\ pc = "advanced_edit"
    /\ calls' = Append(calls, advanced_steps[Len(calls) + 1])
    /\ \/ /\ pc' = "advanced_except"
          /\ error' = Raise("format")
          /\ sent' = sent
          /\ local' = local
       \/ \E r \in Results, ok \in BOOLEAN :
            LET result ==
                    Msg("edit_text", "msg", "advanced_results", "MarkdownV2",
                        <<Field("sponsor", escape_markdown_v2(r.sponsor)),
                          Field("country", escape_markdown_v2(r.country)),
                          Field("isp", escape_markdown_v2(r.isp)),
                          Field("ip", r.ip)>>)
            IN  /\ local' = [local EXCEPT !.results = r]
                /\ sent' = Deliver(local.msg, result, ok)
                /\ IF ok
                   THEN pc' = "returned" /\ error' = error
                   ELSE pc' = "advanced_except" /\ error' = Raise("edit")
    /\ UNCHANGED <<update, logged, funVars>>

\* speedtest_advanced, src/main.py:121-123.
AdvancedExcept ==
    /\ pc = "advanced_except"
    /\ logged' = Append(logged, LogRecord("speedtest_advanced", NoUpdate, error.at))
    /\ \E ok \in BOOLEAN :
        LET message == Msg("reply_text", "update.message", "advanced_failed",
                           "none", << >>)
        IN  /\ sent' = Deliver(update.has_message, message, ok)
            /\ IF update.has_message /\ ok
               THEN pc' = "returned" /\ error' = error
               ELSE pc' = "error_handler" /\ error' = Escaped("except_reply")
    /\ UNCHANGED <<update, calls, local, funVars>>

\* Mutant of PingUsage: the return is missing, so args[0] is read and raises.
PingUsageNoReturn ==
    /\ pc = "ping"
    /\ update.args = << >>
    /\ \E ok \in BOOLEAN :
        LET message == Msg("reply_text", "update.message", "ping_usage",
                           "none", << >>)
        IN  /\ sent' = Deliver(update.has_message, message, ok)
            /\ IF update.has_message /\ ok
               THEN pc' = "error_handler" /\ error' = Escaped("index")
               ELSE pc' = "error_handler" /\ error' = Escaped("usage_reply")
    /\ UNCHANGED <<update, logged, calls, local, funVars>>

\* ping_command, src/main.py:127-129: no argument.
PingUsage ==
    /\ pc = "ping"
    /\ update.args = << >>
    /\ \E ok \in BOOLEAN :
        LET message == Msg("reply_text", "update.message", "ping_usage",
                           "none", << >>)
        IN  /\ sent' = Deliver(update.has_message, message, ok)
            /\ IF update.has_message /\ ok
               THEN pc' = "returned" /\ error' = error
               ELSE pc' = "error_handler" /\ error' = Escaped("usage_reply")
    /\ UNCHANGED <<update, logged, calls, local, funVars>>

\* ping_command, src/main.py:131-133.
PingPlaceholder ==
    /\ pc = "ping"
    /\ update.args # << >>
    /\ \E ok \in BOOLEAN :
        LET host == update.args[1]
            message == Msg("reply_text", "update.message", "pinging", "none",
                           <<Field("host", host)>>)
        IN  /\ sent' = Deliver(update.has_message, message, ok)
            /\ IF update.has_message /\ ok
               THEN /\ pc' = "ping_popen"
                    /\ local' = [local EXCEPT !.host = host, !.msg = TRUE]
                    /\ error' = error
               ELSE /\ pc' = "ping_except"
                    /\ local' = [local EXCEPT !.host = host]
                    /\ error' = Raise("placeholder")
    /\ UNCHANGED <<update, logged, calls, funVars>>

\* ping_command, src/main.py:136-144: the subprocess is started, or Popen raises.
PingPopen ==
    /\ pc = "ping_popen"
    /\ \/ /\ calls' = Append(calls, "Popen")
          /\ pc' = "ping_wait"
          /\ error' = error
       \/ /\ calls' = calls
          /\ pc' = "ping_except"
          /\ error' = Raise("popen")
    /\ UNCHANGED <<update, sent, logged, local, funVars>>

\* ping_command, src/main.py:145: process.communicate() returns what the
\* subprocess wrote. Nothing in the code bounds the time it takes.
PingCommunicate ==
    /\ pc = "ping_wait"
    /\ \E stdout \in Outputs(MaxOutSegs), stderr \in Texts \cup {<< >>} :
        local' = [local EXCEPT !.stdout = stdout, !.stderr = stderr]
    /\ pc' = "ping_report"
    /\ UNCHANGED <<update, sent, logged, calls, error, funVars>>

\* Mutant of PingReport: standard error is not looked at.
PingReportIgnoresStderr ==
    /\ pc = "ping_report"
    /\ \E ok \in BOOLEAN :
        LET host == local.host
            stats == findall(local.stdout)
            st == ping_stats(stats)
            result ==
                IF FALSE
                THEN Msg("edit_text", "msg", "ping_stderr", "none",
                         <<Field("host", host), Field("stderr", local.stderr)>>)
                ELSE IF stats # << >>
                THEN Msg("edit_text", "msg", "ping_results", "MarkdownV2",
                         <<Field("host", escape_markdown_v2(host)),
                           Field("min_ping", st.min_ping),
                           Field("avg_ping", st.avg_ping),
                           Field("max_ping", st.max_ping)>>)
                ELSE Msg("edit_text", "msg", "ping_unparsed", "MarkdownV2",
                         <<Field("host", host), Field("stdout", local.stdout)>>)
        IN  /\ local' = IF FALSE THEN local
                        ELSE [local EXCEPT !.parsed = TRUE, !.stats = stats]
            /\ sent' = Deliver(local.msg, result, ok)
            /\ IF ok
               THEN pc' = "returned" /\ error' = error
               ELSE pc' = "ping_except" /\ error' = Raise("edit")
    /\ UNCHANGED <<update, logged, calls, funVars>>

\* ping_command, src/main.py:147-166.
PingReport ==
    /\ pc = "ping_report"
    /\ \E ok \in BOOLEAN :
        LET host == local.host
            stats == findall(local.stdout)
            st == ping_stats(stats)
            result ==
                IF local.stderr # << >>
                THEN Msg("edit_text", "msg", "ping_stderr", "none",
                         <<Field("host", host), Field("stderr", local.stderr)>>)
                ELSE IF stats # << >>
                THEN Msg("edit_text", "msg", "ping_results", "MarkdownV2",
                         <<Field("host", escape_markdown_v2(host)),
                           Field("min_ping", st.min_ping),
                           Field("avg_ping", st.avg_ping),
                           Field("max_ping", st.max_ping)>>)
                ELSE Msg("edit_text", "msg", "ping_unparsed", "MarkdownV2",
                         <<Field("host", host), Field("stdout", local.stdout)>>)
        IN  /\ local' = IF local.stderr # << >> THEN local
                        ELSE [local EXCEPT !.parsed = TRUE, !.stats = stats]
            /\ sent' = Deliver(local.msg, result, ok)
            /\ IF ok
               THEN pc' = "returned" /\ error' = error
               ELSE pc' = "ping_except" /\ error' = Raise("edit")
    /\ UNCHANGED <<update, logged, calls, funVars>>

\* ping_command, src/main.py:167-169.
PingExcept ==
    /\ pc = "ping_except"
    /\ logged' = Append(logged, LogRecord("ping", NoUpdate, error.at))
    /\ \E ok \in BOOLEAN :
        LET message == Msg("reply_text", "update.message", "ping_failed", "none",
                           <<Field("host", local.host)>>)
        IN  /\ sent' = Deliver(update.has_message, message, ok)
            /\ IF update.has_message /\ ok
               THEN pc' = "returned" /\ error' = error
               ELSE pc' = "error_handler" /\ error' = Escaped("except_reply")
    /\ UNCHANGED <<update, calls, local, funVars>>

\* Mutant of ErrorHandler: the reply is sent without looking at effective_message.
ErrorHandlerNoGuard ==
    /\ pc = "error_handler"
    /\ logged' = Append(logged, LogRecord("error_handler", update, error.at))
    /\ \E ok \in BOOLEAN :
        LET message == Msg("reply_text", "update.effective_message",
                           "error_processing_request", "none", << >>)
        IN  sent' = Deliver(TRUE, message, ok)
    /\ pc' = "returned"
    /\ UNCHANGED <<update, calls, error, local, funVars>>

\* error_handler, src/main.py:171-178. An exception of its own reply is kept
\* by the framework: the worker returns to idle either way.
ErrorHandler ==
    /\ pc = "error_handler"
    /\ logged' = Append(logged, LogRecord("error_handler", update, error.at))
    /\ \E ok \in BOOLEAN :
        LET message == Msg("reply_text", "update.effective_message",
                           "error_processing_request", "none", << >>)
        IN  sent' = Deliver(update.has_effective_message, message, ok)
    /\ pc' = "returned"
    /\ UNCHANGED <<update, calls, error, local, funVars>>

\* The handler (or error_handler) has returned to the dispatcher, which drops
\* the update and waits for the next one, src/main.py:195.
Finish ==
    /\ pc = "returned"
    /\ pc' = "idle"
    /\ update' = NoUpdate
    /\ sent' = << >>
    /\ logged' = << >>
    /\ calls' = << >>
    /\ error' = NoError
    /\ local' = NoLocal
    /\ UNCHANGED funVars

\* The steps the worker takes by itself once it is scheduled.
HandlerStep ==
    \/ StartReply \/ StartExcept
    \/ HelpReply \/ HelpExcept
    \/ SpeedtestPlaceholder \/ SpeedtestCall \/ SpeedtestEdit \/ SpeedtestExcept
    \/ AdvancedPlaceholder \/ AdvancedCall \/ AdvancedEdit \/ AdvancedExcept
    \/ PingUsage \/ PingPlaceholder \/ PingPopen \/ PingReport \/ PingExcept
    \/ ErrorHandler
    \/ Finish

\* The steps that wait for the measurement service or the ping subprocess.
ExternalStep == SpeedtestReturn \/ AdvancedReturn \/ PingCommunicate

Next == Receive \/ HandlerStep \/ ExternalStep

Spec == Init /\ [][Next]_vars

\* The event loop resumes a handler whose awaited call has completed; it
\* cannot make a blocking library call or a subprocess finish.
FairSpec == Spec /\ WF_vars(HandlerStep)

(***************************************************************************)
(* Vocabulary of the properties.                                            *)
(***************************************************************************)
Done == pc = "returned"

Sent(P(_)) == {i \in DOMAIN sent : P(sent[i])}

IsEdit(m) == m.api = "edit_text"
IsReply(m) == m.api \in {"reply_text", "reply_markdown_v2"}
IsGeneric(m) == m.text = "error_processing_request"

FailureText ==
    [c \in Commands |->
        CASE c = "start" -> "error_occurred"
          [] c = "help" -> "error_occurred"
          [] c = "speedtest" -> "speedtest_failed"
          [] c = "speedtest_advanced" -> "advanced_failed"
          [] c = "ping" -> "ping_failed"]

IsFailure(m) == m.text \in {FailureText[c] : c \in Commands}
IsErrorReply(m) == IsFailure(m) \/ IsGeneric(m)

\* The places inside a try block where an exception is raised.
TryErrors == {"reply", "placeholder", "measure", "format", "edit", "popen"}

\* The value a field of a message is made from.
RawOf(src) ==
    CASE src = "host" -> local.host
      [] src = "stdout" -> local.stdout
      [] src = "sponsor" -> local.results.sponsor
      [] src = "country" -> local.results.country
      [] src = "isp" -> local.results.isp
      [] src = "full_name" -> update.full_name

Untrusted == {"host", "stdout", "sponsor", "country", "isp", "full_name"}

(***************************************************************************)
(* C1 as stated: whenever an error was raised while a command was handled,  *)
(* the handling produced exactly one outbound reply and exactly one log     *)
(* record. (Checked on updates that carry a message.)                       *)
(***************************************************************************)
C1_ExactlyOneReplyOneLog ==
    (Done /\ update.has_message /\ error.at # "none") =>
        /\ Cardinality(Sent(LAMBDA m : IsReply(m) /\ m.ok)) = 1
        /\ Len(logged) = 1

(***************************************************************************)
(* C1 amended: whenever an error was raised while a command was handled,    *)
(* one or two log records were written (two exactly when the handler's own  *)
(* failure reply raised and the global handler logged again), at most one   *)
(* error reply was delivered, at least one was attempted when the update's  *)
(* effective message is resolvable, and when the failure did not escape the *)
(* handler there is exactly one log record and exactly one delivered        *)
(* failure reply of that command, next to any placeholder already sent.     *)
(***************************************************************************)
C1_ErrorLoggedAndAnswered ==
    (Done /\ error.at # "none") =>
        /\ Len(logged) \in {1, 2}
        /\ Len(logged) = 2 <=> (error.escaped /\ error.at = "except_reply")
        /\ Cardinality(Sent(LAMBDA m : IsErrorReply(m) /\ m.ok)) <= 1
        /\ update.has_effective_message => Sent(IsErrorReply) # {}
        /\ ~error.escaped =>
             /\ Len(logged) = 1
             /\ logged[1].src = update.command
             /\ logged[1].error \in TryErrors
             /\ Cardinality(Sent(IsErrorReply)) = 1
             /\ sent[Len(sent)].text = FailureText[update.command]
             /\ sent[Len(sent)].ok
             /\ Cardinality(Sent(LAMBDA m : m.ok)) <= 2

C1_Witness ==
    /\ Done
    /\ update.command = "speedtest"
    /\ error = Raise("measure")
    /\ Len(sent) = 2
    /\ Len(logged) = 1

(***************************************************************************)
(* C2 as stated: every message sent or edited with MarkdownV2 rendering     *)
(* carries each untrusted text (host, ping output, sponsor, country, ISP,   *)
(* display name) in sanitized form.                                         *)
(***************************************************************************)
C2_MarkupFieldsSanitized ==
    \A i \in DOMAIN sent :
        sent[i].parse_mode = "MarkdownV2" =>
            \A j \in DOMAIN sent[i].fields :
                LET f == sent[i].fields[j]
                IN  f.src \in Untrusted => f.ins = escape_markdown_v2(RawOf(f.src))

(***************************************************************************)
(* C3 as stated: no failure raised inside a handler is escalated to the     *)
(* global error handler. (Checked on updates that carry a message.)         *)
(***************************************************************************)
C3_NeverEscalated == update.has_message => ~error.escaped

(***************************************************************************)
(* C3 amended: a failure raised inside a handler's try block is caught by   *)
(* that handler, which logs it and attempts its own failure reply; the      *)
(* global error handler is entered only when that failure reply itself did  *)
(* not go through, or when ping's usage reply, which is outside the try     *)
(* block, did not go through.                                               *)
(***************************************************************************)
C3_EscalatesOnlyFromReply ==
    /\ pc = "error_handler" =>
        \/ /\ update.command = "ping" /\ update.args = << >>
           /\ error.at = "usage_reply"
           /\ logged = << >>
           /\ Sent(LAMBDA m : m.ok) = {}
        \/ /\ error.at = "except_reply"
           /\ Len(logged) = 1
           /\ logged[1].src = update.command
           /\ logged[1].error \in TryErrors
           /\ update.has_message =>
                /\ sent # << >>
                /\ sent[Len(sent)].text = FailureText[update.command]
                /\ ~sent[Len(sent)].ok
    /\ (logged # << >> /\ logged[1].src # "error_handler") =>
        /\ logged[1].src = update.command
        /\ logged[1].error \in TryErrors
        /\ update.has_message =>
             Cardinality(Sent(LAMBDA m : m.text = FailureText[update.command])) = 1

C3_Witness ==
    /\ pc = "error_handler"
    /\ update.has_message
    /\ update.command = "ping"
    /\ error.at = "except_reply"
    /\ logged[1].error = "popen"

(***************************************************************************)
(* C4: /ping with an empty argument list replies with the usage text and    *)
(* returns: no placeholder is sent, no subprocess is started, no message is *)
(* edited; once the usage reply has gone through, the handler has returned  *)
(* without any error and that reply is the only message.                    *)
(***************************************************************************)
C4_NoArgumentUsageOnly ==
    (update.command = "ping" /\ update.args = << >>) =>
        /\ calls = << >>
        /\ ~local.msg
        /\ Sent(IsEdit) = {}
        /\ \A i \in DOMAIN sent : sent[i].text \in {"ping_usage", "error_processing_request"}
        /\ (update.has_message /\ pc # "ping") =>
             /\ sent # << >>
             /\ sent[1] = [Msg("reply_text", "update.message", "ping_usage",
                               "none", << >>) EXCEPT !.ok = sent[1].ok]
             /\ sent[1].ok => (pc = "returned" /\ error = NoError /\ Len(sent) = 1
                               /\ logged = << >>)

C4_Witness ==
    /\ Done
    /\ update.command = "ping" /\ update.args = << >>
    /\ Len(sent) = 1 /\ sent[1].text = "ping_usage" /\ sent[1].ok

(***************************************************************************)
(* C6: in the ping handler, when standard error is non-empty the            *)
(* placeholder is edited once, in plain text, with a message carrying that  *)
(* stderr text, and the handler stops: standard output is not parsed and no *)
(* statistics or raw-output edit is made, whatever standard output holds.   *)
(***************************************************************************)
C6_StderrStops ==
    (update.command = "ping" /\ local.stderr # << >>) =>
        /\ ~local.parsed /\ local.stats = << >>
        /\ Cardinality(Sent(IsEdit)) <= 1
        /\ pc # "ping_report" => Cardinality(Sent(IsEdit)) = 1
        /\ \A i \in Sent(IsEdit) :
            /\ sent[i].text = "ping_stderr"
            /\ sent[i].parse_mode = "none"
            /\ sent[i].on = "msg"
            /\ \E j \in DOMAIN sent[i].fields :
                 sent[i].fields[j] = Field("stderr", local.stderr)
            /\ sent[i].ok => (pc = "returned" /\ i = Len(sent) /\ logged = << >>)

C6_Witness ==
    /\ Done
    /\ update.command = "ping"
    /\ local.stderr # << >>
    /\ findall(local.stdout) # << >>
    /\ Len(sent) = 2 /\ sent[2].text = "ping_stderr" /\ sent[2].ok

(***************************************************************************)
(* C8: in speedtest and speedtest_advanced the placeholder is sent before   *)
(* any measurement call; the measurement operations run in the order        *)
(* constructor, best-server selection, download, upload, read of the ping;  *)
(* the placeholder is edited only after all of them; and when an exception  *)
(* is raised during measurement or formatting the placeholder is left       *)
(* unedited and exactly one fixed failure reply is issued.                  *)
(***************************************************************************)
C8_PlaceholderMeasureEdit ==
    update.command \in {"speedtest", "speedtest_advanced"} =>
        LET order == <<"Speedtest", "get_best_server", "download", "upload",
                       "results.ping">>
            placeholder == IF update.command = "speedtest"
                           THEN "running_speedtest" ELSE "running_advanced"
            failures == Sent(LAMBDA m : m.text = FailureText[update.command])
        IN  /\ Len(calls) <= Len(order)
            /\ calls = SubSeq(order, 1, Len(calls))
            /\ calls # << >> =>
                 /\ sent # << >>
                 /\ sent[1] = Msg("reply_text", "update.message", placeholder,
                                  "none", << >>)
            /\ Sent(IsEdit) # {} => (calls = order /\ Sent(IsEdit) = {2})
            /\ (logged # << >> /\ logged[1].error \in {"measure", "format"}) =>
                 /\ Sent(IsEdit) = {}
                 /\ failures = {2}
                 /\ sent[2] = [Msg("reply_text", "update.message",
                                   FailureText[update.command], "none", << >>)
                               EXCEPT !.ok = sent[2].ok]
                 /\ Len(sent) <= 3

C8_Witness ==
    /\ Done
    /\ update.command = "speedtest_advanced"
    /\ calls = <<"Speedtest", "get_best_server", "download", "upload">>
    /\ logged # << >> /\ logged[1].error = "measure"
    /\ Len(sent) = 2 /\ sent[2].text = "advanced_failed" /\ sent[2].ok

(***************************************************************************)
(* C9: when a failure escapes a handler, the global error path writes one   *)
(* log record holding the triggering update and the error, and issues one   *)
(* fixed generic plain-text reply to the effective message if and only if   *)
(* the update has one; the command is not run again. Without an escaping    *)
(* failure the global path writes and sends nothing.                        *)
(***************************************************************************)
C9_GlobalErrorPath ==
    LET glogs == {i \in DOMAIN logged : logged[i].src = "error_handler"}
        hlogs == DOMAIN logged \ glogs
    IN  /\ (~error.escaped \/ pc = "error_handler") =>
             (glogs = {} /\ Sent(IsGeneric) = {})
        /\ (error.escaped /\ pc # "error_handler") =>
             /\ pc = "returned"
             /\ glogs = {Len(logged)}
             /\ logged[Len(logged)] = LogRecord("error_handler", update, error.at)
             /\ Cardinality(hlogs) <= 1
             /\ IF update.has_effective_message
                THEN /\ Sent(IsGeneric) = {Len(sent)}
                     /\ sent[Len(sent)] =
                          [Msg("reply_text", "update.effective_message",
                               "error_processing_request", "none", << >>)
                           EXCEPT !.ok = sent[Len(sent)].ok]
                ELSE Sent(IsGeneric) = {}
             /\ Cardinality(Sent(LAMBDA m : m.text \in
                    {"welcome", "help", "running_speedtest", "running_advanced",
                     "pinging", "ping_usage"})) <= 1

C9_Witness ==
    /\ Done
    /\ error.escaped
    /\ update.has_message
    /\ Len(logged) = 2
    /\ sent[Len(sent)].text = "error_processing_request" /\ sent[Len(sent)].ok

(***************************************************************************)
(* C10 as stated: after receiving any command the dispatcher leaves idle    *)
(* and eventually returns to idle, whatever the outcome; no command leaves  *)
(* the bot in the handling state for ever.                                  *)
(***************************************************************************)
C10_ReturnsToIdle == (pc # "idle") ~> (pc = "idle")

(***************************************************************************)
(* C5: for every list of n >= 1 matches found in the ping output, the       *)
(* reported (min, avg, max) are the last three matches in order of          *)
(* appearance, "N/A" standing in front for each one that is missing: n = 1  *)
(* gives (N/A, N/A, m1), n = 2 gives (N/A, m1, m2), n = 3 gives (m1, m2,    *)
(* m3). The output "1.2 ms3.4 ms5.6 ms" gives ("1.2", "3.4", "5.6").        *)
(***************************************************************************)
C5_LastThreeMatches ==
    (pc = "fn_return" /\ ret.stats # << >>) =>
        LET m == ret.stats
            n == Len(m)
            Last(k) == IF n >= k THEN m[n - k + 1] ELSE NA
            ms == <<" ", "m", "s">>
            example == <<"1", ".", "2">> \o ms \o <<"3", ".", "4">> \o ms
                       \o <<"5", ".", "6">> \o ms
        IN  /\ <<ret.min_ping, ret.avg_ping, ret.max_ping>> = <<Last(3), Last(2), Last(1)>>
            /\ n = 1 => <<ret.min_ping, ret.avg_ping, ret.max_ping>> = <<NA, NA, m[1]>>
            /\ n = 2 => <<ret.min_ping, ret.avg_ping, ret.max_ping>> = <<NA, m[1], m[2]>>
            /\ n = 3 => <<ret.min_ping, ret.avg_ping, ret.max_ping>> = <<m[1], m[2], m[3]>>
            /\ ping_stats(findall(example)) =
                 [min_ping |-> <<"1", ".", "2">>, avg_ping |-> <<"3", ".", "4">>,
                  max_ping |-> <<"5", ".", "6">>]

C5_Witness ==
    /\ pc = "fn_return"
    /\ Len(ret.stats) = 4
    /\ ret.stats[1] # ret.stats[2]
    /\ ret.min_ping = ret.stats[2]

(***************************************************************************)
(* C7 as stated: for every input, the sanitized text holds no un-escaped    *)
(* character of the escape set (read from the left, a backslash escapes the *)
(* character after it, so a backslash that is itself escaped escapes        *)
(* nothing), and taking the escapes away gives the input back.              *)
(***************************************************************************)
RECURSIVE HasUnescaped(_, _)
HasUnescaped(s, i) ==
    IF i > Len(s) THEN FALSE
    ELSE IF s[i] = "\\" THEN HasUnescaped(s, i + 2)
    ELSE IF s[i] \in escape_chars THEN TRUE
    ELSE HasUnescaped(s, i + 1)

RECURSIVE StripEscapes(_)
StripEscapes(s) ==
    IF s = << >> THEN << >>
    ELSE IF Head(s) = "\\" /\ Len(s) >= 2 /\ s[2] \in escape_chars
    THEN <<s[2]>> \o StripEscapes(Tail(Tail(s)))
    ELSE <<Head(s)>> \o StripEscapes(Tail(s))

C7_NoUnescapedCharacter ==
    pc = "fn_return" =>
        /\ ~HasUnescaped(ret, 1)
        /\ StripEscapes(ret) = arg

=============================================================================
